---------------------------- MODULE Spec2Model ----------------------------
(***************************************************************************)
(* A model of afspm's messaging and control substrate:                     *)
(*   - the device controller loop (DeviceController / ImageController),    *)
(*   - the Lazy-Pirate ControlClient,                                      *)
(*   - the replay broker (PubSubCache) on top of ProtoBasedCacheLogic,     *)
(*   - the control Router (mode, lease, problem set).                      *)
(* Each part has its own specification; the variables of the other parts   *)
(* keep their initial value under it.                                      *)
(***************************************************************************)
EXTENDS Integers, Sequences, FiniteSets, TLC

(***************************************************************************)
(* Bounds of the model.                                                    *)
(***************************************************************************)
\* The wall clock (time.time(), in whole seconds) runs from 1 to MaxTime.
MaxTime == 4
\* scan_time_s and move_time_s are configured in 0..MaxDur.
MaxDur == 1
\* Scan parameter values are 0..MaxParams; 0 is the default ScanParameters2d().
MaxParams == 1

\* request_retries is configured in 0..MaxRetries.
MaxRetries == 2
\* A ControlClient makes at most MaxCalls requests.
MaxCalls == 2
\* retries_left is followed down to -MaxOverrun; below, only its sign is kept.
MaxOverrun == 2

\* The broker ingests at most MaxMsgs messages.
MaxMsgs == 3
\* The configured cache depths are in 1..MaxDepth.
MaxDepth == 2
\* The largest integer poll_timeout_ms of a device controller.
MaxPollTimeout == 1

(***************************************************************************)
(* Enumerations of scan_pb2 / control_pb2 named in the sources.            *)
(***************************************************************************)
SS_FREE == "SS_FREE"
SS_MOVING == "SS_MOVING"
SS_SCANNING == "SS_SCANNING"
SS_INTERRUPTED == "SS_INTERRUPTED"
ScanStates == {SS_FREE, SS_MOVING, SS_SCANNING, SS_INTERRUPTED}

REQ_START_SCAN == "REQ_START_SCAN"
REQ_STOP_SCAN == "REQ_STOP_SCAN"
REQ_SET_SCAN_PARAMS == "REQ_SET_SCAN_PARAMS"
REQ_PARAM == "REQ_PARAM"
\* What ControlServer.poll returns when nothing was received: (None, None).
NoReq == "None"
DeviceRequests == {REQ_START_SCAN, REQ_STOP_SCAN, REQ_SET_SCAN_PARAMS, REQ_PARAM}

REP_SUCCESS == "REP_SUCCESS"
REP_FAILURE == "REP_FAILURE"
REP_CMD_NOT_SUPPORTED == "REP_CMD_NOT_SUPPORTED"
REP_PERFORMING_SCAN == "REP_PERFORMING_SCAN"
REP_NO_RESPONSE == "REP_NO_RESPONSE"
REP_ALREADY_UNDER_CONTROL == "REP_ALREADY_UNDER_CONTROL"
REP_WRONG_MODE == "REP_WRONG_MODE"
REP_NOT_IN_CONTROL == "REP_NOT_IN_CONTROL"
\* No reply was sent.
NoRep == "None"

(***************************************************************************)
(* Values: scan parameters and scans.                                      *)
(***************************************************************************)
ScanParams == 0..MaxParams
DefaultParams == 0

\* A Scan2d: whether the timestamp field is set, its value (0 when unset, as
\* a default Timestamp compares), the sample values and the parameters.
\* values is an identifier of the sample array; 0 is the empty array.
EmptyScan == [has_ts |-> FALSE, ts |-> 0, values |-> 0, params |-> DefaultParams]
\* dev_scan = None.
NoneScan == [has_ts |-> FALSE, ts |-> 0, values |-> -1, params |-> -1]

VARIABLES
    \* ImageController / DeviceController
    now, start_ts, scan_time_s, move_time_s,
    dev_scan_state, dev_scan_params, dev_scan,
    scan_state, scan_params, scan,
    pubs, tick, trans, last_pub_state, alive

VARIABLES
    \* ControlClient
    request_retries, server_up, cl_pc, cl_msg, retries_left, client_closed,
    client, sent, cl_result, cl_event, calls,
    \* the sockets of the client that are open, the transmissions on
    \* self.client that have no reply yet, the uuid given at construction,
    \* the identity of self.client and the one of the last transmission
    open_socks, unanswered, uuid, identity, sent_as

clientVars == <<request_retries, server_up, cl_pc, cl_msg, retries_left,
                client_closed, client, sent, cl_result, cl_event, calls,
                open_socks, unanswered, uuid, identity, sent_as>>

VARIABLES
    \* PubSubCache and its subscribers
    envelope_to_history_map, cache, subs, delivered, ingested, subscriptions,
    \* the cache each subscriber keeps of what it received
    sub_cache

brokerVars == <<envelope_to_history_map, cache, subs, delivered, ingested,
                subscriptions, sub_cache>>

VARIABLES
    \* Router: the control state it owns, and its last two requests
    mode, lease, problem_set, prior_mode, pinned, r_prev, r_last

routerVars == <<mode, lease, problem_set, prior_mode, pinned, r_prev, r_last>>

VARIABLES
    \* A cache logic on its own: which class it is, its dict of known
    \* envelopes (the keys in insertion order) and its last extract_proto
    \* and, for a PBCScanLogic, the sizes given to create_roi_proto_hist_list
    logic, envelope_to_proto_map, decoded, sizes_with_hist_list,
    \* its last update_cache: the proto, the cache it was given and whether
    \* it raised
    last_admit

logicVars == <<logic, envelope_to_proto_map, decoded, sizes_with_hist_list,
               last_admit>>

devVars == <<now, start_ts, scan_time_s, move_time_s,
             dev_scan_state, dev_scan_params, dev_scan,
             scan_state, scan_params, scan,
             pubs, tick, trans, last_pub_state, alive>>

VARIABLES
    \* ControlServer in the loop of its device controller: the timeout it
    \* polls with, where the loop is, the requests waiting at its socket,
    \* what poll returned, the reply on its way to the client and the calls
    \* of which a handler was run
    poll_timeout_ms, srv_pc, srv_queue, srv_polled, srv_reply, srv_runs

serverVars == <<poll_timeout_ms, srv_pc, srv_queue, srv_polled, srv_reply,
                srv_runs>>

vars == <<devVars, clientVars, brokerVars, routerVars, logicVars,
          serverVars>>

(***************************************************************************)
(* Envelopes are strings, modelled as sequences of characters.             *)
(***************************************************************************)
\* type(proto).__name__ of the two message types of the tests.
scan_id == <<"S", "c", "a", "n", "2", "d">>
status_id == <<"S", "P", "M", "S", "t", "a", "t", "u", "s">>
divider == <<"_">>

\* The subscription matching of the transport: p is a prefix of e.
IsPrefix(p, e) == Len(p) <= Len(e) /\ SubSeq(e, 1, Len(p)) = p

\* Python's `key in envelope` on strings: key occurs somewhere in e.
IsSubstring(key, e) ==
    \E i \in 0..(Len(e) - Len(key)) : SubSeq(e, i + 1, i + Len(key)) = key

\* No ControlServer is polled.
ServerIdle ==
    /\ poll_timeout_ms = -1
    /\ srv_pc = "loop"
    /\ srv_queue = << >>
    /\ srv_polled = [call |-> 0, tx |-> 0, req |-> NoReq]
    /\ srv_reply = [call |-> 0, rep |-> NoRep]
    /\ srv_runs = << >>

\* No cache logic is used on its own.
LogicIdle ==
    /\ logic = "None"
    /\ envelope_to_proto_map = << >>
    /\ decoded = << >>
    /\ sizes_with_hist_list = << >>
    /\ last_admit = << >>

\* The broker is not running.
BrokerIdle ==
    /\ envelope_to_history_map = << >>
    /\ cache = [keys |-> << >>, fifo |-> << >>]
    /\ subs = << >>
    /\ delivered = << >>
    /\ ingested = << >>
    /\ subscriptions = << >>
    /\ sub_cache = << >>

\* ControlMode.
CM_MANUAL == "CM_MANUAL"
CM_AUTOMATED == "CM_AUTOMATED"
CM_PROBLEM == "CM_PROBLEM"
ControlModes == {CM_MANUAL, CM_AUTOMATED, CM_PROBLEM}

\* ExperimentProblem.
EP_TIP_SHAPE_CHANGED == "EP_TIP_SHAPE_CHANGED"
EP_DEVICE_MALFUNCTION == "EP_DEVICE_MALFUNCTION"
ExperimentProblems == {EP_TIP_SHAPE_CHANGED, EP_DEVICE_MALFUNCTION}

\* The request kinds the Router answers itself.
REQ_REQUEST_CTRL == "REQ_REQUEST_CTRL"
REQ_RELEASE_CTRL == "REQ_RELEASE_CTRL"
REQ_SET_CONTROL_MODE == "REQ_SET_CONTROL_MODE"
REQ_ADD_EXP_PRBLM == "REQ_ADD_EXP_PRBLM"
REQ_RMV_EXP_PRBLM == "REQ_RMV_EXP_PRBLM"

\* What the Router remembers of a request: who asked what, the reply, and
\* the control state the request found.
RouterRequest(req, caller, arg, rep, m, l, ps) ==
    [req |-> req, caller |-> caller, arg |-> arg, rep |-> rep,
     before |-> [mode |-> m, lease |-> l, problem_set |-> ps]]

NoRouterRequest == RouterRequest(NoReq, "None", "None", NoRep, CM_MANUAL, {}, {})

\* The Router has served no request.
RouterIdle ==
    /\ mode = CM_MANUAL
    /\ lease = {}
    /\ problem_set = {}
    /\ prior_mode = CM_MANUAL
    /\ pinned = FALSE
    /\ r_prev = NoRouterRequest
    /\ r_last = NoRouterRequest

(***************************************************************************)
(* The state one tick works on: the fields of the ImageController and of   *)
(* the DeviceController, and what the tick did (its publications, its      *)
(* reply, the handler it called, the device state changes it made).        *)
(***************************************************************************)
TickState == [start_ts |-> start_ts,
              dev_scan_state |-> dev_scan_state,
              dev_scan_params |-> dev_scan_params,
              dev_scan |-> dev_scan,
              scan_state |-> scan_state,
              scan_params |-> scan_params,
              scan |-> scan,
              pubs |-> << >>,
              trans |-> << >>,
              rep |-> NoRep,
              handler |-> "None",
              raised |-> FALSE]

PubState(v) == [kind |-> "ScanStateMsg", state |-> v, params |-> -1, scan |-> NoneScan]
PubScan(v) == [kind |-> "Scan2d", state |-> "None", params |-> -1, scan |-> v]
PubParams(v) == [kind |-> "ScanParameters2d", state |-> "None", params |-> v, scan |-> NoneScan]

\* Publisher.send_msg: the publications of the tick, in the order sent.
send_msg(s, msg) == [s EXCEPT !.pubs = Append(@, msg)]

\* An assignment to ImageController.dev_scan_state, with what caused it.
SetDevScanState(s, to, cause) ==
    [s EXCEPT !.dev_scan_state = to,
              !.trans = Append(@, [from |-> s.dev_scan_state, to |-> to,
                                   cause |-> cause])]

(***************************************************************************)
(* ImageController.                                                        *)
(***************************************************************************)
\* The samples interpolated from the image for these parameters: the
\* default parameters have a 0 x 0 data shape, hence no samples.
Interp(params) == params

on_start_scan(s, t) ==
    [SetDevScanState(s, SS_SCANNING, REQ_START_SCAN)
        EXCEPT !.start_ts = t, !.rep = REP_SUCCESS, !.handler = "on_start_scan"]

on_stop_scan(s) ==
    [SetDevScanState(s, SS_FREE, REQ_STOP_SCAN)
        EXCEPT !.start_ts = 0, !.rep = REP_SUCCESS, !.handler = "on_stop_scan"]

on_set_scan_params(s, t, params) ==
    [SetDevScanState(s, SS_MOVING, REQ_SET_SCAN_PARAMS)
        EXCEPT !.start_ts = t, !.dev_scan_params = params,
               !.rep = REP_SUCCESS, !.handler = "on_set_scan_params"]

poll_scan_state(s) == s.dev_scan_state

poll_scan_params(s) == s.dev_scan_params

\* The latest scan of the device; an empty Scan2d while there is none.
poll_scan(s) == IF s.dev_scan = NoneScan THEN EmptyScan ELSE s.dev_scan

\* update_scan followed by dev_scan.timestamp.GetCurrentTime().
update_scan(s, t) ==
    [s EXCEPT !.dev_scan = [has_ts |-> TRUE, ts |-> t,
                            values |-> Interp(s.dev_scan_params),
                            params |-> s.dev_scan_params]]

\* The timer part of ImageController.run_per_loop, at time t.
\* start_ts = 0 stands for None; `if duration:` is false for 0 and None.
ImageTimer(s, t) ==
    IF s.start_ts # 0
    THEN LET duration == IF s.dev_scan_state = SS_SCANNING THEN scan_time_s
                         ELSE IF s.dev_scan_state = SS_MOVING THEN move_time_s
                         ELSE 0
             upd == s.dev_scan_state = SS_SCANNING
         IN  IF duration # 0 /\ t - s.start_ts > duration
             THEN LET s1 == [SetDevScanState(s, SS_FREE, "timer")
                                EXCEPT !.start_ts = 0]
                  IN  IF upd THEN update_scan(s1, t) ELSE s1
             ELSE s
    ELSE s

(***************************************************************************)
(* DeviceController.                                                       *)
(***************************************************************************)
\* A variant that also lets the scan parameters be set during a scan.
ALLOWED_COMMANDS_DURING_SCAN_SetParams == {REQ_STOP_SCAN, REQ_SET_SCAN_PARAMS}

\* A variant that lets no request through during a scan.
ALLOWED_COMMANDS_DURING_SCAN_None == {}

ALLOWED_COMMANDS_DURING_SCAN == {REQ_STOP_SCAN}

\* The request codes create_req_handler_map maps to a handler.
req_handler_map == {REQ_START_SCAN, REQ_STOP_SCAN, REQ_SET_SCAN_PARAMS}

\* What _handle_incoming_requests does with the polled request:
\* nothing, refuse it, call its handler, or fail on the map lookup.
Dispatch(state, req) ==
    IF req = NoReq THEN "none"
    ELSE IF state = SS_SCANNING /\ req \notin ALLOWED_COMMANDS_DURING_SCAN
         THEN "refuse"
    ELSE IF req \in req_handler_map THEN "handle"
    ELSE "KeyError"

\* The handler req_handler_map[req] of the ImageController, called with
\* the request's payload.
ImageHandler(s, req, proto, t) ==
    IF req = REQ_START_SCAN THEN on_start_scan(s, t)
    ELSE IF req = REQ_STOP_SCAN THEN on_stop_scan(s)
    ELSE on_set_scan_params(s, t, proto)

HandlerName(req) ==
    IF req = REQ_START_SCAN THEN "on_start_scan"
    ELSE IF req = REQ_STOP_SCAN THEN "on_stop_scan"
    ELSE "on_set_scan_params"

\* The handler of an arbitrary driver: it answers rep.
DriverHandler(s, req, rep) ==
    [s EXCEPT !.rep = rep, !.handler = HandlerName(req)]

\* A handling that refuses on the state the device is in.
HandleIncomingRequests_DeviceState(s, req, handled) ==
    LET d == Dispatch(s.dev_scan_state, req)
    IN  IF d = "none" THEN s
        ELSE IF d = "refuse" THEN [s EXCEPT !.rep = REP_PERFORMING_SCAN]
        ELSE IF d = "KeyError" THEN [s EXCEPT !.raised = TRUE]
        ELSE handled

\* _handle_incoming_requests; handled is the state the handler leaves.
HandleIncomingRequests(s, req, handled) ==
    LET d == Dispatch(s.scan_state, req)
    IN  IF d = "none" THEN s
        ELSE IF d = "refuse" THEN [s EXCEPT !.rep = REP_PERFORMING_SCAN]
        ELSE IF d = "KeyError" THEN [s EXCEPT !.raised = TRUE]
        ELSE handled

\* A comparison of the sample values only.
SendScan_ValuesOnly(old_scan, new_scan) == old_scan.values # new_scan.values

\* Whether _handle_polling_device sends the scan it polled.
SendScan(old_scan, new_scan) ==
    IF new_scan.has_ts THEN old_scan.ts # new_scan.ts
    ELSE old_scan.values # new_scan.values

\* A variant that publishes the scan parameters before the scan.
HandlePollingDevice_ParamsBeforeScan(s, new_state, new_scan, new_params) ==
    LET s1 == [s EXCEPT !.scan_state = new_state]
        s2 == IF s.scan_state # new_state
              THEN send_msg(s1, PubState(new_state)) ELSE s1
        s3 == [s2 EXCEPT !.scan_params = new_params]
        s4 == IF s.scan_params # new_params
              THEN send_msg(s3, PubParams(new_params)) ELSE s3
    IN  IF s.scan_state = SS_SCANNING /\ new_state # SS_SCANNING
        THEN LET s4a == [s4 EXCEPT !.scan = new_scan]
             IN  IF SendScan(s.scan, new_scan)
                 THEN send_msg(s4a, PubScan(new_scan)) ELSE s4a
        ELSE s4

\* A variant that sends the scan whenever the polled scan differs, whether
\* or not the controller leaves SCANNING.
HandlePollingDevice_ScanAnyTime(s, new_state, new_scan, new_params) ==
    LET s1 == [s EXCEPT !.scan_state = new_state]
        s2 == IF s.scan_state # new_state
              THEN send_msg(s1, PubState(new_state)) ELSE s1
        s2a == [s2 EXCEPT !.scan = new_scan]
        s3 == IF SendScan(s.scan, new_scan)
              THEN send_msg(s2a, PubScan(new_scan)) ELSE s2a
        s4 == [s3 EXCEPT !.scan_params = new_params]
    IN  IF s.scan_params # new_params
        THEN send_msg(s4, PubParams(new_params)) ELSE s4

\* A variant that publishes the scan state at every tick.
HandlePollingDevice_AlwaysState(s, new_state, new_scan, new_params) ==
    LET s1 == [s EXCEPT !.scan_state = new_state]
        s2 == send_msg(s1, PubState(new_state))
        s3 == IF s.scan_state = SS_SCANNING /\ new_state # SS_SCANNING
              THEN LET s2a == [s2 EXCEPT !.scan = new_scan]
                   IN  IF SendScan(s.scan, new_scan)
                       THEN send_msg(s2a, PubScan(new_scan)) ELSE s2a
              ELSE s2
        s4 == [s3 EXCEPT !.scan_params = new_params]
    IN  IF s.scan_params # new_params
        THEN send_msg(s4, PubParams(new_params)) ELSE s4

\* _handle_polling_device, given what the three polls return.
HandlePollingDevice(s, new_state, new_scan, new_params) ==
    LET s1 == [s EXCEPT !.scan_state = new_state]
        s2 == IF s.scan_state # new_state
              THEN send_msg(s1, PubState(new_state)) ELSE s1
        s3 == IF s.scan_state = SS_SCANNING /\ new_state # SS_SCANNING
              THEN LET s2a == [s2 EXCEPT !.scan = new_scan]
                   IN  IF SendScan(s.scan, new_scan)
                       THEN send_msg(s2a, PubScan(new_scan)) ELSE s2a
              ELSE s2
        s4 == [s3 EXCEPT !.scan_params = new_params]
    IN  IF s.scan_params # new_params
        THEN send_msg(s4, PubParams(new_params)) ELSE s4

\* DeviceController.run_per_loop on the ImageController: an exception
\* raised while handling the request leaves before the device is polled.
DeviceRunPerLoop(s, req, proto, t) ==
    LET s1 == HandleIncomingRequests(s, req, ImageHandler(s, req, proto, t))
    IN  IF s1.raised THEN s1
        ELSE HandlePollingDevice(s1, poll_scan_state(s1), poll_scan(s1),
                                 poll_scan_params(s1))

\* DeviceController.run_per_loop on an arbitrary driver, whose handler
\* answers rep and whose polls return new_state, new_scan and new_params.
DriverRunPerLoop(s, req, rep, new_state, new_scan, new_params) ==
    LET s1 == HandleIncomingRequests(s, req, DriverHandler(s, req, rep))
    IN  IF s1.raised THEN s1
        ELSE HandlePollingDevice(s1, new_state, new_scan, new_params)

\* The last ScanStateMsg among the publications, or prev when there is none.
LastPubState(ps, prev) ==
    LET idx == {i \in 1..Len(ps) : ps[i].kind = "ScanStateMsg"}
    IN  IF idx = {} THEN prev
        ELSE ps[CHOOSE i \in idx : \A j \in idx : j <= i].state

\* What is kept of a tick: the request, what the controller knew when it
\* handled it, the device before and after the request, and the outcome.
TickRecord(req, proto, before, after, prev_pub) ==
    [req |-> req, proto |-> proto,
     state_at_req |-> before.scan_state,
     dev_state_before |-> before.dev_scan_state,
     dev_params_before |-> before.dev_scan_params,
     dev_state_after |-> after.dev_scan_state,
     dev_params_after |-> after.dev_scan_params,
     rep |-> after.rep, handler |-> after.handler, raised |-> after.raised,
     prev_pub |-> prev_pub]

NoTick == [req |-> NoReq, proto |-> -1, state_at_req |-> SS_FREE,
           dev_state_before |-> SS_FREE, dev_params_before |-> DefaultParams,
           dev_state_after |-> SS_FREE, dev_params_after |-> DefaultParams,
           rep |-> NoRep, handler |-> "None", raised |-> FALSE,
           prev_pub |-> "None"]

\* The payload the request carries: scan parameters for SET_SCAN_PARAMS.
Protos(req) == IF req = REQ_SET_SCAN_PARAMS THEN ScanParams ELSE {-1}

\* ImageController.__init__ followed by DeviceController.__init__.
DevInit ==
    /\ now = 1
    /\ start_ts = 0
    /\ scan_time_s \in 0..MaxDur
    /\ move_time_s \in 0..MaxDur
    /\ dev_scan_state = SS_FREE
    /\ dev_scan_params = DefaultParams
    /\ dev_scan = NoneScan
    /\ scan_state = SS_FREE
    /\ scan_params = DefaultParams
    /\ scan = EmptyScan
    /\ pubs = << >>
    /\ tick = NoTick
    /\ trans = << >>
    /\ last_pub_state = "None"
    /\ alive = TRUE

\* The ControlClient while another part of the system is looked at.
ClientIdle ==
    /\ request_retries = 1
    /\ server_up = TRUE
    /\ cl_pc = "idle"
    /\ cl_msg = NoReq
    /\ retries_left = 1
    /\ client_closed = FALSE
    /\ client = 0
    /\ sent = 0
    /\ cl_result = NoRep
    /\ cl_event = "init"
    /\ calls = 0
    /\ open_socks = {0}
    /\ unanswered = 0
    /\ uuid = "None"
    /\ identity = "None"
    /\ sent_as = "None"

\* One tick of the ImageController, dt seconds after the previous one, in
\* which the control server's poll returns (req, proto).
ImageRunPerLoop(req, proto, dt) ==
    /\ alive
    /\ now + dt <= MaxTime
    /\ LET t == now + dt
           timed == ImageTimer(TickState, t)
           s == DeviceRunPerLoop(timed, req, proto, t)
       IN  /\ now' = t
           /\ start_ts' = s.start_ts
           /\ dev_scan_state' = s.dev_scan_state
           /\ dev_scan_params' = s.dev_scan_params
           /\ dev_scan' = s.dev_scan
           /\ scan_state' = s.scan_state
           /\ scan_params' = s.scan_params
           /\ scan' = s.scan
           /\ pubs' = s.pubs
           /\ trans' = s.trans
           /\ tick' = TickRecord(req, proto, timed, s, last_pub_state)
           /\ last_pub_state' = LastPubState(s.pubs, last_pub_state)
           /\ alive' = ~s.raised
    /\ UNCHANGED <<scan_time_s, move_time_s>>
    /\ UNCHANGED <<clientVars, brokerVars, routerVars, logicVars, serverVars>>

ImageNext ==
    \E req \in DeviceRequests \cup {NoReq} : \E proto \in Protos(req) :
        \E dt \in 0..1 : ImageRunPerLoop(req, proto, dt)



\* What a driver's handler may answer.
DriverResponses == {REP_SUCCESS, REP_FAILURE, REP_CMD_NOT_SUPPORTED}

\* The scans a driver's poll_scan may return: without a timestamp or with
\* one.
DriverScans ==
    {[has_ts |-> FALSE, ts |-> 0, values |-> 1, params |-> DefaultParams]}
    \cup {[has_ts |-> TRUE, ts |-> ts, values |-> 1, params |-> DefaultParams] :
        ts \in 1..2}

\* DeviceController.__init__ on an arbitrary driver: the timings of the
\* ImageController play no part.
DeviceIdle == DevInit /\ scan_time_s = 0 /\ move_time_s = 0

\* DeviceController.__init__ on an arbitrary driver: what the controller
\* knows at first is what the three polls of the driver return, and
\* nothing of it is published.
DriverConstructed ==
    /\ now = 1
    /\ start_ts = 0
    /\ scan_time_s = 0
    /\ move_time_s = 0
    /\ dev_scan_state = SS_FREE
    /\ dev_scan_params = DefaultParams
    /\ dev_scan = NoneScan
    /\ scan_state \in ScanStates
    /\ scan_params \in ScanParams
    /\ scan \in DriverScans \cup {EmptyScan}
    /\ pubs = << >>
    /\ tick = NoTick
    /\ trans = << >>
    /\ last_pub_state = "None"
    /\ alive = TRUE

DriverInit ==
    DriverConstructed /\ ClientIdle /\ BrokerIdle /\ RouterIdle /\ LogicIdle
    /\ ServerIdle

\* One tick of a DeviceController on an arbitrary driver.
DriverTick(req, rep, new_state, new_scan, new_params) ==
    /\ alive
    /\ LET s == DriverRunPerLoop(TickState, req, rep, new_state, new_scan,
                                 new_params)
       IN  /\ scan_state' = s.scan_state
           /\ scan_params' = s.scan_params
           /\ scan' = s.scan
           /\ pubs' = s.pubs
           /\ tick' = TickRecord(req, -1, TickState, s, last_pub_state)
           /\ last_pub_state' = LastPubState(s.pubs, last_pub_state)
           /\ alive' = ~s.raised
    /\ UNCHANGED <<now, start_ts, scan_time_s, move_time_s, dev_scan_state,
                   dev_scan_params, dev_scan, trans>>
    /\ UNCHANGED <<clientVars, brokerVars, routerVars, logicVars, serverVars>>

\* The answers of the driver's handler that the tick can use: the handler
\* is called only for a request that is dispatched.
HandlerAnswers(req) ==
    IF Dispatch(scan_state, req) = "handle" THEN DriverResponses
    ELSE {REP_SUCCESS}

\* The scans the tick can get from the driver: poll_scan is called only
\* when the controller leaves SCANNING.
PolledScans(new_state) ==
    IF scan_state = SS_SCANNING /\ new_state # SS_SCANNING THEN DriverScans
    ELSE {EmptyScan}

DriverNext ==
    \E req \in DeviceRequests \cup {NoReq} : \E rep \in HandlerAnswers(req) :
        \E new_state \in ScanStates : \E new_scan \in PolledScans(new_state) :
            \E new_params \in ScanParams :
                DriverTick(req, rep, new_state, new_scan, new_params)

\* The device controller loop on the ImageController.
ImageInit ==
    DevInit /\ ClientIdle /\ BrokerIdle /\ RouterIdle /\ LogicIdle
    /\ ServerIdle

ImageSpec == ImageInit /\ [][ImageNext]_vars

\* The device controller loop on an arbitrary driver.
DriverSpec == DriverInit /\ [][DriverNext]_vars

(***************************************************************************)
(* Claims on the device controller loop.                                   *)
(***************************************************************************)

\* C1: a request other than STOP_SCAN that is handled while the
\* controller's scan_state is SCANNING is answered PERFORMING_SCAN, calls
\* no handler of the driver and leaves the device's scan state and scan
\* parameters as they were.
C1_RefusedWhileScanning ==
    (tick.req # NoReq /\ tick.req # REQ_STOP_SCAN
        /\ tick.state_at_req = SS_SCANNING)
    => /\ tick.rep = REP_PERFORMING_SCAN
       /\ tick.handler = "None"
       /\ ~tick.raised
       /\ tick.dev_state_after = tick.dev_state_before
       /\ tick.dev_params_after = tick.dev_params_before
       /\ \A i \in 1..Len(trans) : trans[i].cause = "timer"

\* A SET_SCAN_PARAMS with new parameters was refused while the device scans.
C1_Witness ==
    /\ tick.req = REQ_SET_SCAN_PARAMS
    /\ tick.proto # dev_scan_params
    /\ tick.state_at_req = SS_SCANNING
    /\ tick.dev_state_before = SS_SCANNING
    /\ tick.rep = REP_PERFORMING_SCAN

KindsOf(ps) == [i \in 1..Len(ps) |-> ps[i].kind]

\* Whether the kinds of the sequence ks come in the order of the sequence
\* order, each at most once.
InOrder(ks, order) ==
    \A i, j \in 1..Len(ks) :
        i < j => \E a, b \in 1..Len(order) :
                    a < b /\ order[a] = ks[i] /\ order[b] = ks[j]

\* C2 as stated: the publications of a tick come in the order scan state,
\* scan parameters, scan.
C2_StateParamsScanOrder ==
    InOrder(KindsOf(pubs), <<"ScanStateMsg", "ScanParameters2d", "Scan2d">>)

\* C2 as amended: the publications of a tick come in the order scan state,
\* scan, scan parameters.
C2_StateScanParamsOrder ==
    InOrder(KindsOf(pubs), <<"ScanStateMsg", "Scan2d", "ScanParameters2d">>)

\* A tick published all three.
C2_Witness ==
    KindsOf(pubs) = <<"ScanStateMsg", "Scan2d", "ScanParameters2d">>

\* The changes of the device scan state the state machine of the
\* controller loop allows, with their causes.
AllowedTransition(from, to, cause) ==
    \/ from = SS_FREE /\ to = SS_MOVING /\ cause = REQ_SET_SCAN_PARAMS
    \/ from = SS_FREE /\ to = SS_SCANNING /\ cause = REQ_START_SCAN
    \/ from = SS_SCANNING /\ to = SS_FREE /\ cause \in {"timer", REQ_STOP_SCAN}
    \/ from = SS_MOVING /\ to = SS_FREE /\ cause = "timer"
    \/ to = SS_INTERRUPTED

AllowedPublished(from, to) ==
    \E cause \in {"timer", REQ_START_SCAN, REQ_STOP_SCAN, REQ_SET_SCAN_PARAMS} :
        AllowedTransition(from, to, cause)

\* C3: every change of the device scan state, and every pair of
\* consecutive published scan states, is a transition of the state machine.
C3_OnlyListedTransitions ==
    /\ \A i \in 1..Len(trans) :
          trans[i].from # trans[i].to
          => AllowedTransition(trans[i].from, trans[i].to, trans[i].cause)
    /\ (tick.prev_pub # "None" /\ last_pub_state # tick.prev_pub)
          => AllowedPublished(tick.prev_pub, last_pub_state)

(***************************************************************************)
(* ControlClient: the Lazy-Pirate request loop of _try_send_req.           *)
(* cl_pc is "idle" between calls and "poll" at the loop's client.poll;     *)
(* client is the socket object held, sent counts the transmissions of the  *)
(* current call, cl_event is what the last step of the client was.         *)
(***************************************************************************)
\* The requests the client sends in the model and the replies a server gives.
ClientRequests == {REQ_START_SCAN, REQ_STOP_SCAN}
ServerReplies == {REP_SUCCESS, REP_PERFORMING_SCAN}

\* sent stops counting above every value request_retries can take.
MaxSent == MaxRetries + MaxOverrun + 1

\* The uuid argument of ControlClient: None or a string.
Uuids == {"None", "client_a"}

\* A socket built without setting its identity.
SocketIdentity_Unset(u) == "None"

\* _init_client: the identity of the socket it builds is the uuid, when
\* one was given ("None": no identity set, the server's ROUTER makes one).
SocketIdentity(u) == u

\* ControlClient.__init__: the socket is built and connected.
ClientConstructed ==
    /\ request_retries \in 0..MaxRetries
    /\ server_up \in BOOLEAN
    /\ cl_pc = "idle"
    /\ cl_msg = NoReq
    /\ retries_left = request_retries
    /\ client_closed = FALSE
    /\ client = 0
    /\ sent = 0
    /\ cl_result = NoRep
    /\ cl_event = "init"
    /\ calls = 0
    /\ open_socks = {0}
    /\ unanswered = 0
    /\ uuid \in Uuids
    /\ identity = SocketIdentity(uuid)
    /\ sent_as = "None"

\* client.send_multipart: one more transmission of the call.
Transmit(n) == IF n < MaxSent THEN n + 1 ELSE n

\* retries_left -= 1; once negative it never is 0 again.
Decrement(n) == IF n > -MaxOverrun THEN n - 1 ELSE n

\* _init_client after _close_client: self.client is a socket object other
\* than the one just closed (the sockets are told apart as 0 and 1).
NewSocket(c) == 1 - c

\* A close that leaves the socket open.
close_client_Noop(socks, c) == socks

\* _close_client: self.client is closed.
close_client(socks, c) == socks \ {c}

\* _init_client: does nothing when self.client is open, else builds a
\* socket with the identity and connects it.
init_client(socks, c) ==
    IF c \in socks THEN [socks |-> socks, client |-> c]
    ELSE [socks |-> socks \cup {NewSocket(c)}, client |-> NewSocket(c)]

\* The test that ends the retry loop.
RetriesExhausted(n) == n = 0

\* A request method calls _try_send_req(msg): retries_left is set and the
\* message is sent, which raises on a socket that was closed.
Call(msg) ==
    /\ cl_pc = "idle"
    /\ calls < MaxCalls
    /\ calls' = calls + 1
    /\ cl_msg' = msg
    /\ retries_left' = request_retries
    /\ IF client_closed
       THEN /\ cl_pc' = "idle"
            /\ cl_result' = "ZMQError"
            /\ cl_event' = "raise"
            /\ sent' = 0
            /\ UNCHANGED <<unanswered, sent_as>>
       ELSE /\ cl_pc' = "poll"
            /\ cl_result' = NoRep
            /\ cl_event' = "call"
            /\ sent' = Transmit(0)
            /\ unanswered' = unanswered + 1
            /\ sent_as' = identity
    /\ UNCHANGED <<request_retries, server_up, client_closed, client,
                   open_socks, uuid, identity>>

\* The poll returns POLLIN: the reply is received, parsed and returned.
PollReply(rep) ==
    /\ cl_pc = "poll"
    /\ server_up
    /\ cl_pc' = "idle"
    /\ cl_result' = rep
    /\ cl_event' = "reply"
    /\ unanswered' = 0
    /\ UNCHANGED <<request_retries, server_up, cl_msg, retries_left,
                   client_closed, client, sent, calls,
                   open_socks, uuid, identity, sent_as>>

\* The poll times out: the socket is closed; either the call gives up
\* with NO_RESPONSE or the socket is rebuilt and the message sent again.
PollTimeout ==
    /\ cl_pc = "poll"
    /\ LET left == Decrement(retries_left)
           closed == close_client(open_socks, client)
           built == init_client(closed, client)
       IN  /\ retries_left' = left
           /\ IF RetriesExhausted(left)
              THEN /\ open_socks' = closed
                   /\ client_closed' = (client \notin closed)
                   /\ client' = client
                   /\ cl_pc' = "idle"
                   /\ cl_result' = REP_NO_RESPONSE
                   /\ cl_event' = "give_up"
                   /\ sent' = sent
                   /\ unanswered' = IF client \in closed THEN unanswered
                                    ELSE 0
                   /\ UNCHANGED <<identity, sent_as>>
              ELSE IF built.client # client
              THEN /\ open_socks' = built.socks
                   /\ client_closed' = FALSE
                   /\ client' = built.client
                   /\ identity' = SocketIdentity(uuid)
                   /\ cl_pc' = "poll"
                   /\ cl_result' = NoRep
                   /\ cl_event' = "resend"
                   /\ sent' = Transmit(sent)
                   /\ unanswered' = 1
                   /\ sent_as' = identity'
              ELSE \* the socket is the one that still waits for a reply:
                   \* a REQ socket refuses a second send
                   /\ open_socks' = built.socks
                   /\ client_closed' = FALSE
                   /\ client' = client
                   /\ cl_pc' = "idle"
                   /\ cl_result' = "ZMQError"
                   /\ cl_event' = "resend_refused"
                   /\ UNCHANGED <<sent, unanswered, identity, sent_as>>
    /\ UNCHANGED <<request_retries, server_up, cl_msg, calls, uuid>>

otherThanClient == <<devVars, brokerVars, routerVars, logicVars, serverVars>>

ClientStep == (\E rep \in ServerReplies : PollReply(rep)) \/ PollTimeout

ClientNext ==
    \/ \E msg \in ClientRequests : Call(msg) /\ UNCHANGED otherThanClient
    \/ \E rep \in ServerReplies : PollReply(rep) /\ UNCHANGED otherThanClient
    \/ PollTimeout /\ UNCHANGED otherThanClient

\* The ControlClient against a server that answers or not.
ClientInit ==
    ClientConstructed /\ DeviceIdle /\ BrokerIdle /\ RouterIdle /\ LogicIdle
    /\ ServerIdle

ClientSpec == ClientInit /\ [][ClientNext]_vars

\* The same, where a poll of the client always ends: client.poll returns
\* after request_timeout_ms at the latest.
ClientFairSpec ==
    ClientSpec /\ WF_vars(ClientStep /\ UNCHANGED otherThanClient)

\* C4: the transmissions of a call never exceed request_retries; a call
\* that gives up returns NO_RESPONSE after exactly request_retries
\* transmissions; a reply that arrives is what the call returns.
C4_AtMostRetriesTransmissions ==
    /\ cl_event \in {"call", "resend", "give_up", "reply"}
          => sent <= request_retries
    /\ cl_event = "give_up"
          => cl_result = REP_NO_RESPONSE /\ sent = request_retries
    /\ cl_event = "reply" => cl_result \in ServerReplies /\ cl_pc = "idle"

\* C5: against a server that never replies, a call returns.
C5_CallReturns == (cl_pc = "poll" /\ ~server_up) ~> (cl_pc = "idle")

\* C17: the client owns at most one open socket, with at most one
\* transmission without reply on it; nothing is outstanding between two
\* calls; a retransmission is made on a new socket after the previous
\* one was closed, and is never attempted on the socket that still waits.
C17_OneOutstandingRequest ==
    /\ Cardinality(open_socks) <= 1
    /\ unanswered <= 1
    /\ unanswered = 1 => (open_socks = {client} /\ cl_pc = "poll")
    /\ cl_pc = "poll" => (open_socks = {client} /\ unanswered = 1)
    /\ cl_pc = "idle" => unanswered = 0
    /\ cl_event = "resend" => (open_socks = {client} /\ ~client_closed)
    /\ cl_event # "resend_refused"

\* In its second call the client retransmitted on a rebuilt socket.
C17_Witness ==
    /\ calls = 2
    /\ cl_event = "resend"
    /\ cl_pc = "poll"
    /\ client = 1

\* C18: every socket of the client has the uuid given at construction as
\* its identity, and every transmission is made under it.
C18_SameIdentity ==
    /\ open_socks # {} => identity = uuid
    /\ cl_event \in {"call", "resend"} => sent_as = uuid

\* A client with a uuid retransmitted on a rebuilt socket.
C18_Witness ==
    /\ uuid # "None"
    /\ cl_event = "resend"
    /\ sent_as = uuid
    /\ sent >= 2

(***************************************************************************)
(* Cache logic (pbc_logic.py).  A message is a Scan2d (with its channel    *)
(* and twice its ROI size.x, so that halves can be told) or an SPMStatus;  *)
(* id tells messages apart and is the rank at which the broker got it.     *)
(***************************************************************************)
ScanMsg(channel, size2, id) ==
    [type |-> scan_id, channel |-> channel, size2 |-> size2, id |-> id]

StatusMsg(id) ==
    [type |-> status_id, channel |-> << >>, size2 |-> 0, id |-> id]

\* A rounding that takes halves up.
RoundHalfUp(size2) == (size2 + 1) \div 2

\* np.round on twice-the-value: to the nearest integer, halves to even.
RoundHalfEven(size2) ==
    LET k == size2 \div 2
    IN  IF size2 % 2 = 0 THEN k
        ELSE IF k % 2 = 0 THEN k ELSE k + 1

Digits == <<"0", "1", "2", "3", "4", "5", "6", "7", "8", "9">>

\* str() of the float64 np.round returns, for 0 <= n <= 9: "n.0".
FloatStr(n) == <<Digits[n + 1], ".", "0">>

\* CacheLogic.get_envelope_for_proto: the name of the message type.
ProtoBased_get_envelope_for_proto(proto) == proto.type

\* PBCScanLogic.get_envelope_for_proto (force_parent = False).
get_envelope_for_proto(proto) ==
    IF proto.type = scan_id
    THEN scan_id \o divider \o proto.channel \o divider
            \o FloatStr(RoundHalfEven(proto.size2))
    ELSE ProtoBased_get_envelope_for_proto(proto)

\* A deque that refuses the new element when full.
DequeAppend_KeepOldest(q, maxlen, x) ==
    IF Len(q) >= maxlen THEN q ELSE Append(q, x)

\* A deque without bound.
DequeAppend_Unbounded(q, maxlen, x) == Append(q, x)

\* deque(maxlen).append(x): the oldest element leaves a full deque.
DequeAppend(q, maxlen, x) ==
    IF maxlen = 0 THEN q
    ELSE IF Len(q) >= maxlen THEN Append(Tail(q), x)
    ELSE Append(q, x)

\* cache[envelope] = deque(maxlen): a new key, after those already there.
\* The cache is a dict: its keys in insertion order, and per key the deque
\* and its maxlen.
NewDeque(c, envelope, maxlen) ==
    [keys |-> Append(c.keys, envelope),
     fifo |-> [k \in (DOMAIN c.fifo) \cup {envelope} |->
                 IF k = envelope THEN [maxlen |-> maxlen, q |-> << >>]
                 ELSE c.fifo[k]]]

CacheAppend(c, envelope, proto) ==
    [c EXCEPT !.fifo[envelope].q =
        DequeAppend(@, c.fifo[envelope].maxlen, proto)]

\* A variant that stores the message before it looks the history up.
ProtoBased_update_cache_StoreFirst(hist, envelope, proto, c) ==
    LET stored == CacheAppend(
                    IF envelope \in DOMAIN c.fifo THEN c
                    ELSE NewDeque(c, envelope,
                                  IF envelope \in DOMAIN hist
                                  THEN hist[envelope] ELSE 1),
                    envelope, proto)
    IN  [raised |-> envelope \notin DOMAIN c.fifo
                      /\ envelope \notin DOMAIN hist,
         cache |-> stored]

\* ProtoBasedCacheLogic.update_cache, for the envelope the logic gives the
\* message: the new cache, or a KeyError when the envelope has no history.
ProtoBased_update_cache(hist, envelope, proto, c) ==
    IF envelope \in DOMAIN c.fifo
    THEN [raised |-> FALSE, cache |-> CacheAppend(c, envelope, proto)]
    ELSE IF envelope \in DOMAIN hist
    THEN [raised |-> FALSE,
          cache |-> CacheAppend(NewDeque(c, envelope, hist[envelope]),
                                envelope, proto)]
    ELSE [raised |-> TRUE, cache |-> c]

\* A variant whose fallback takes the depth of SPMStatus.
update_cache_StatusDepth(hist, proto, c) ==
    LET envelope == get_envelope_for_proto(proto)
        r == ProtoBased_update_cache(hist, envelope, proto, c)
    IN  IF ~r.raised THEN r
        ELSE IF ~IsSubstring(scan_id, envelope) THEN r
        ELSE [raised |-> FALSE,
              cache |-> CacheAppend(
                  IF envelope \in DOMAIN c.fifo THEN c
                  ELSE NewDeque(c, envelope, hist[status_id]),
                  envelope, proto)]

\* PBCScanLogic.update_cache.
update_cache(hist, proto, c) ==
    LET envelope == get_envelope_for_proto(proto)
        r == ProtoBased_update_cache(hist, envelope, proto, c)
    IN  IF ~r.raised THEN r
        ELSE IF ~IsSubstring(scan_id, envelope) THEN r
        ELSE [raised |-> FALSE,
              cache |-> CacheAppend(
                  IF envelope \in DOMAIN c.fifo THEN c
                  ELSE NewDeque(c, envelope, hist[scan_id]),
                  envelope, proto)]

(***************************************************************************)
(* PubSubCache: the broker between the publishers and the subscribers.     *)
(***************************************************************************)
Subscribers == {"sub_scan", "sub_both"}

\* The topics a subscriber may ask for.
Topics(s) == IF s = "sub_scan" THEN {scan_id} ELSE {scan_id, status_id}

\* The messages a publisher sends; the broker receives it as its id-th.
Published(id) ==
    {ScanMsg(<<"a">>, 2, id), ScanMsg(<<"a">>, 4, id), StatusMsg(id)}

\* PBCScanLogic.__init__: a history for each configured message type, the
\* one of Scan2d being default_scan_history.
BrokerInit ==
    /\ \E depth \in 1..MaxDepth :
          envelope_to_history_map = (scan_id :> depth) @@ (status_id :> 1)
    /\ cache = [keys |-> << >>, fifo |-> << >>]
    /\ subs = [s \in Subscribers |-> {}]
    /\ delivered = [s \in Subscribers |-> << >>]
    /\ ingested = << >>
    /\ subscriptions = << >>
    /\ sub_cache = [s \in Subscribers |-> [keys |-> << >>, fifo |-> << >>]]

\* A matching of whole envelopes.
Matches_Exact(topics, proto) == get_envelope_for_proto(proto) \in topics

\* Whether the downstream socket hands a message to a subscriber with
\* these topics.
Matches(topics, proto) ==
    \E t \in topics : IsPrefix(t, get_envelope_for_proto(proto))

\* The downstream socket sends msgs: each subscriber gets, in order, those
\* that match its subscriptions.
Emit(d, sb, msgs) ==
    [s \in Subscribers |->
        d[s] \o SelectSeq(msgs, LAMBDA m : Matches(sb[s], m))]

\* A subscriber receives msgs: it admits each to its own cache, through the
\* cache logic.
RECURSIVE SubscriberCache(_, _, _)
SubscriberCache(hist, c, msgs) ==
    IF msgs = << >> THEN c
    ELSE SubscriberCache(hist, update_cache(hist, Head(msgs), c).cache,
                         Tail(msgs))

\* The caches of the subscribers once the downstream socket has sent msgs.
Receive(sc, sb, msgs) ==
    [s \in Subscribers |->
        SubscriberCache(envelope_to_history_map, sc[s],
                        SelectSeq(msgs, LAMBDA m : Matches(sb[s], m)))]

\* The cached messages of the envelopes that topic matches: the envelopes
\* in insertion order, each deque from oldest to newest.
RECURSIVE ReplayOf(_, _, _)
ReplayOf(c, topic, i) ==
    IF i > Len(c.keys) THEN << >>
    ELSE (IF IsPrefix(topic, c.keys[i]) THEN c.fifo[c.keys[i]].q ELSE << >>)
         \o ReplayOf(c, topic, i + 1)

\* A message arrives from upstream: it is admitted to the cache and
\* forwarded downstream.
Ingest(proto) ==
    /\ Len(ingested) < MaxMsgs
    /\ LET r == update_cache(envelope_to_history_map, proto, cache)
       IN  /\ ~r.raised
           /\ cache' = r.cache
    /\ ingested' = Append(ingested, proto)
    /\ delivered' = Emit(delivered, subs, <<proto>>)
    /\ sub_cache' = Receive(sub_cache, subs, <<proto>>)
    /\ UNCHANGED <<envelope_to_history_map, subs, subscriptions>>

\* The broker observes a new subscription of s to topic: the subscription
\* takes effect and the cache of the matching envelopes is sent again.
Subscribe(s, topic) ==
    /\ topic \notin subs[s]
    /\ subs' = [subs EXCEPT ![s] = @ \cup {topic}]
    /\ subscriptions' = Append(subscriptions,
            [sub |-> s, topic |-> topic, at |-> Len(ingested),
             pos |-> Len(delivered[s]),
             had |-> [x \in Subscribers |-> Len(delivered[x])],
             subs |-> subs'])
    /\ delivered' = Emit(delivered, subs', ReplayOf(cache, topic, 1))
    /\ sub_cache' = Receive(sub_cache, subs', ReplayOf(cache, topic, 1))
    /\ UNCHANGED <<envelope_to_history_map, cache, ingested>>

otherThanBroker == <<devVars, clientVars, routerVars, logicVars, serverVars>>

BrokerNext ==
    \/ \E proto \in Published(Len(ingested) + 1) :
          Ingest(proto) /\ UNCHANGED otherThanBroker
    \/ \E s \in Subscribers : \E topic \in Topics(s) :
          Subscribe(s, topic) /\ UNCHANGED otherThanBroker

BrokerSpecInit ==
    BrokerInit /\ DeviceIdle /\ ClientIdle /\ RouterIdle /\ LogicIdle
    /\ ServerIdle

\* The broker, its publishers and its subscribers.
BrokerSpec == BrokerSpecInit /\ [][BrokerNext]_vars

(***************************************************************************)
(* Claims on the broker.                                                   *)
(***************************************************************************)
\* The envelopes of the messages of a sequence, in order of first occurrence.
RECURSIVE EnvelopesOf(_)
EnvelopesOf(msgs) ==
    IF msgs = << >> THEN << >>
    ELSE LET before == EnvelopesOf(SubSeq(msgs, 1, Len(msgs) - 1))
             e == get_envelope_for_proto(msgs[Len(msgs)])
         IN  IF \E i \in 1..Len(before) : before[i] = e THEN before
             ELSE Append(before, e)

\* The last n elements of a sequence.
LastN(q, n) == IF Len(q) <= n THEN q ELSE SubSeq(q, Len(q) - n + 1, Len(q))

\* The configured depth of an envelope: its own, or the one of Scan2d.
DepthOf(e) ==
    IF e \in DOMAIN envelope_to_history_map THEN envelope_to_history_map[e]
    ELSE envelope_to_history_map[scan_id]

\* What a subscription to topic is owed, given the messages the broker had
\* got before it: for each envelope topic is a prefix of, the last
\* up-to-depth messages in arrival order.
RECURSIVE Owed(_, _, _, _)
Owed(msgs, envs, topic, i) ==
    IF i > Len(envs) THEN << >>
    ELSE (IF IsPrefix(topic, envs[i])
          THEN LastN(SelectSeq(msgs,
                        LAMBDA m : get_envelope_for_proto(m) = envs[i]),
                     DepthOf(envs[i]))
          ELSE << >>)
         \o Owed(msgs, envs, topic, i + 1)

OwedTo(u) ==
    LET msgs == SubSeq(ingested, 1, u.at)
    IN  Owed(msgs, EnvelopesOf(msgs), u.topic, 1)

\* C6: what a new subscription is owed is delivered to the subscriber
\* right after the subscription, in order, hence before any message the
\* broker gets later.
C6_ReplayBeforeLive ==
    \A n \in 1..Len(subscriptions) :
        LET u == subscriptions[n]
            owed == OwedTo(u)
            got == delivered[u.sub]
        IN  /\ Len(got) >= u.pos + Len(owed)
            /\ SubSeq(got, u.pos + 1, u.pos + Len(owed)) = owed
            /\ \A i \in 1..Len(got) :
                  got[i].id > u.at => i > u.pos + Len(owed)

\* A subscription to Scan2d came after two scans of one envelope of which
\* the cache kept the last only, and a message came after the replay.
C6_Witness ==
    \E n \in 1..Len(subscriptions) :
        LET u == subscriptions[n]
        IN  /\ u.topic = scan_id
            /\ u.at = 2
            /\ get_envelope_for_proto(ingested[1])
                  = get_envelope_for_proto(ingested[2])
            /\ OwedTo(u) = <<ingested[2]>>
            /\ Len(ingested) = 3
            /\ Len(delivered[u.sub]) >= u.pos + 2
            /\ delivered[u.sub][u.pos + 2] = ingested[3]

(***************************************************************************)
(* The control Router: mode, lease and problem set, and the five requests  *)
(* it answers itself.  The lease is kept as the set of the leases that     *)
(* exist, each {holder, granted_mode}.                                     *)
(***************************************************************************)
RouterClients == {"A", "B", "admin"}
admin_identities == {"admin"}

Lease(holder, granted_mode) ==
    [holder |-> holder, granted_mode |-> granted_mode]

\* A REQUEST_CTRL pre-check that looks at the mode only.
RequestCtrlAccepted_ModeOnly(l, md, m) == md = m

\* The pre-check of REQUEST_CTRL(m): no lease, and the router's mode is m.
RequestCtrlAccepted(l, md, m) == l = {} /\ md = m

\* A rejection that always blames the mode.
RequestCtrlRejections_WrongMode(l, md, m) == {REP_WRONG_MODE}

\* The error replies a rejected REQUEST_CTRL(m) may get.
RequestCtrlRejections(l, md, m) ==
    {REP_ALREADY_UNDER_CONTROL : x \in {1 : y \in l}}
        \cup {REP_WRONG_MODE : x \in {1 : y \in {md} \ {m}}}

\* The Router has answered a request: it keeps it as its last.
Answered(req, caller, arg, rep) ==
    /\ r_prev' = r_last
    /\ r_last' = RouterRequest(req, caller, arg, rep, mode, lease,
                               problem_set)

RequestCtrl(caller, m) ==
    IF RequestCtrlAccepted(lease, mode, m)
    THEN /\ lease' = lease \cup {Lease(caller, m)}
         /\ Answered(REQ_REQUEST_CTRL, caller, m, REP_SUCCESS)
         /\ UNCHANGED <<mode, problem_set, prior_mode, pinned>>
    ELSE /\ \E rep \in RequestCtrlRejections(lease, mode, m) :
                Answered(REQ_REQUEST_CTRL, caller, m, rep)
         /\ UNCHANGED <<mode, lease, problem_set, prior_mode, pinned>>

ReleaseCtrl(caller) ==
    IF \E l \in lease : l.holder = caller
    THEN /\ lease' = {l \in lease : l.holder # caller}
         /\ Answered(REQ_RELEASE_CTRL, caller, "None", REP_SUCCESS)
         /\ UNCHANGED <<mode, problem_set, prior_mode, pinned>>
    ELSE /\ Answered(REQ_RELEASE_CTRL, caller, "None", REP_NOT_IN_CONTROL)
         /\ UNCHANGED <<mode, lease, problem_set, prior_mode, pinned>>

\* An administrator who sets PROBLEM pins it; the mode PROBLEM replaces is
\* the one to restore.
SetControlMode(caller, m) ==
    IF caller \in admin_identities
    THEN /\ mode' = m
         /\ lease' = {l \in lease : l.granted_mode = m}
         /\ pinned' = (m = CM_PROBLEM)
         /\ prior_mode' = IF m = CM_PROBLEM /\ mode # CM_PROBLEM
                          THEN mode ELSE prior_mode
         /\ Answered(REQ_SET_CONTROL_MODE, caller, m, REP_SUCCESS)
         /\ UNCHANGED problem_set
    ELSE /\ Answered(REQ_SET_CONTROL_MODE, caller, m, REP_FAILURE)
         /\ UNCHANGED <<mode, lease, problem_set, prior_mode, pinned>>

AddExpPrblm(caller, p) ==
    /\ problem_set' = problem_set \cup {p}
    /\ IF problem_set = {}
       THEN /\ mode' = CM_PROBLEM
            /\ prior_mode' = IF mode # CM_PROBLEM THEN mode ELSE prior_mode
       ELSE UNCHANGED <<mode, prior_mode>>
    /\ lease' = {l \in lease : l.granted_mode = CM_PROBLEM}
    /\ Answered(REQ_ADD_EXP_PRBLM, caller, p, REP_SUCCESS)
    /\ UNCHANGED pinned

RmvExpPrblm(caller, p) ==
    /\ problem_set' = problem_set \ {p}
    /\ IF problem_set' = {} /\ mode = CM_PROBLEM /\ ~pinned
       THEN mode' = prior_mode
       ELSE UNCHANGED mode
    /\ Answered(REQ_RMV_EXP_PRBLM, caller, p, REP_SUCCESS)
    /\ UNCHANGED <<lease, prior_mode, pinned>>

otherThanRouter == <<devVars, clientVars, brokerVars, logicVars, serverVars>>

RouterNext ==
    \/ \E c \in RouterClients : \E m \in ControlModes :
          RequestCtrl(c, m) /\ UNCHANGED otherThanRouter
    \/ \E c \in RouterClients :
          ReleaseCtrl(c) /\ UNCHANGED otherThanRouter
    \/ \E c \in RouterClients : \E m \in ControlModes :
          SetControlMode(c, m) /\ UNCHANGED otherThanRouter
    \/ \E c \in RouterClients : \E p \in ExperimentProblems :
          AddExpPrblm(c, p) /\ UNCHANGED otherThanRouter
    \/ \E c \in RouterClients : \E p \in ExperimentProblems :
          RmvExpPrblm(c, p) /\ UNCHANGED otherThanRouter

\* The Router starts in one of the two working modes, with no lease and
\* no problem.
RouterInit ==
    /\ mode \in {CM_MANUAL, CM_AUTOMATED}
    /\ lease = {}
    /\ problem_set = {}
    /\ prior_mode = mode
    /\ pinned = FALSE
    /\ r_prev = NoRouterRequest
    /\ r_last = NoRouterRequest

RouterSpecInit ==
    RouterInit /\ DeviceIdle /\ ClientIdle /\ BrokerIdle /\ LogicIdle
    /\ ServerIdle

\* The Router and its clients.
RouterSpec == RouterSpecInit /\ [][RouterNext]_vars

(***************************************************************************)
(* Claims on the Router.                                                   *)
(***************************************************************************)
\* C7: whatever the requests of the clients, at most one lease exists.
C7_AtMostOneLease == Cardinality(lease) <= 1

\* A client asked for control in the router's mode while another held the
\* lease, after an earlier request.
C7_Witness ==
    /\ r_prev.req # NoReq
    /\ r_last.req = REQ_REQUEST_CTRL
    /\ r_last.arg = r_last.before.mode
    /\ \E l \in r_last.before.lease : l.holder # r_last.caller
    /\ lease # {}

\* C8: REQUEST_CTRL(m) is answered SUCCESS exactly when no lease exists and
\* the mode is m, and the caller then holds the lease; otherwise the reply
\* is ALREADY_UNDER_CONTROL (a lease exists) or WRONG_MODE (the mode
\* differs) and mode, lease and problem set are as before.  After the
\* holder's RELEASE_CTRL, another client's REQUEST_CTRL in the current mode
\* succeeds.
C8_RequestCtrlReplies ==
    /\ r_last.req = REQ_REQUEST_CTRL =>
          LET b == r_last.before
              m == r_last.arg
          IN  /\ r_last.rep = REP_SUCCESS <=> (b.lease = {} /\ b.mode = m)
              /\ r_last.rep = REP_SUCCESS =>
                    lease = {Lease(r_last.caller, m)}
              /\ r_last.rep # REP_SUCCESS =>
                    /\ r_last.rep \in {REP_ALREADY_UNDER_CONTROL,
                                       REP_WRONG_MODE}
                    /\ r_last.rep = REP_ALREADY_UNDER_CONTROL => b.lease # {}
                    /\ r_last.rep = REP_WRONG_MODE => b.mode # m
                    /\ mode = b.mode
                    /\ lease = b.lease
                    /\ problem_set = b.problem_set
    /\ (/\ r_prev.req = REQ_RELEASE_CTRL
        /\ r_prev.rep = REP_SUCCESS
        /\ r_last.req = REQ_REQUEST_CTRL
        /\ r_last.caller # r_prev.caller
        /\ r_last.arg = r_last.before.mode)
          => r_last.rep = REP_SUCCESS

\* The holder released the lease and another client then got it.
C8_Witness ==
    /\ r_prev.req = REQ_RELEASE_CTRL
    /\ r_prev.rep = REP_SUCCESS
    /\ r_prev.before.lease # {}
    /\ r_last.req = REQ_REQUEST_CTRL
    /\ r_last.caller # r_prev.caller
    /\ r_last.rep = REP_SUCCESS
    /\ lease = {Lease(r_last.caller, mode)}

\* C9: the mode is PROBLEM if and only if the problem set is not empty or
\* an administrator pinned the mode.
C9_ProblemModeIffProblems ==
    mode = CM_PROBLEM <=> (problem_set # {} \/ pinned)

\* C10: with mode AUTOMATED and a lease held, ADD_EXP_PRBLM(p) sets the
\* mode to PROBLEM, adds p and revokes the lease; when RMV_EXP_PRBLM(p)
\* follows and empties the problem set, the mode is AUTOMATED again.
AddFromAutomated(r) ==
    /\ r.req = REQ_ADD_EXP_PRBLM
    /\ r.before.mode = CM_AUTOMATED
    /\ \E c \in RouterClients : r.before.lease = {Lease(c, CM_AUTOMATED)}

C10_ProblemDrivenTransition ==
    /\ AddFromAutomated(r_last) =>
          /\ mode = CM_PROBLEM
          /\ r_last.arg \in problem_set
          /\ lease = {}
    /\ (/\ AddFromAutomated(r_prev)
        /\ r_last.req = REQ_RMV_EXP_PRBLM
        /\ r_last.arg = r_prev.arg
        /\ problem_set = {})
          => mode = CM_AUTOMATED

(***************************************************************************)
(* Claims on what the device controller publishes.                         *)
(***************************************************************************)
\* The positions of the Scan2d among the publications of the tick.
ScanPubs == {i \in 1..Len(pubs) : pubs[i].kind = "Scan2d"}

\* A change of the scan state out of SCANNING was published in the tick
\* before position i, and it is the last state published before i.
LeftScanningBefore(i) ==
    /\ tick.state_at_req = SS_SCANNING
    /\ \E j \in 1..(i - 1) :
          /\ pubs[j].kind = "ScanStateMsg"
          /\ pubs[j].state # SS_SCANNING
          /\ \A k \in (j + 1)..(i - 1) : pubs[k].kind # "ScanStateMsg"

\* C11 as stated: every Scan2d comes in a tick after the publication of a
\* change out of SCANNING, and SCANNING had been published before.
C11_ScanAfterPublishedScanning ==
    \A i \in ScanPubs :
        /\ LeftScanningBefore(i)
        /\ tick.prev_pub = SS_SCANNING

\* C11: every Scan2d comes in a tick after the publication of a change out
\* of SCANNING, hence never while the last published state is SCANNING;
\* before the tick the last published state was SCANNING, or no state had
\* been published since the controller was constructed.
C11_ScanAfterLeavingScanning ==
    \A i \in ScanPubs :
        /\ LeftScanningBefore(i)
        /\ tick.prev_pub \in {SS_SCANNING, "None"}

\* A Scan2d was published after SCANNING and then another state were.
C11_Witness ==
    /\ ScanPubs # {}
    /\ tick.prev_pub = SS_SCANNING
    /\ last_pub_state \in ScanStates \ {SS_SCANNING}


\* C12: a STOP_SCAN handled while the controller's scan_state is SCANNING
\* calls on_stop_scan, is answered SUCCESS, leaves the device FREE, and
\* the poll of the same tick publishes the change to FREE.
C12_StopScanWhileScanning ==
    (tick.req = REQ_STOP_SCAN /\ tick.state_at_req = SS_SCANNING)
    => /\ tick.handler = "on_stop_scan"
       /\ tick.rep = REP_SUCCESS
       /\ ~tick.raised
       /\ tick.dev_state_after = SS_FREE
       /\ dev_scan_state = SS_FREE
       /\ start_ts = 0
       /\ Len(pubs) >= 1
       /\ pubs[1] = PubState(SS_FREE)
       /\ scan_state = SS_FREE

\* A scan that was still running on the device was stopped.
C12_Witness ==
    /\ tick.req = REQ_STOP_SCAN
    /\ tick.state_at_req = SS_SCANNING
    /\ tick.dev_state_before = SS_SCANNING
    /\ tick.rep = REP_SUCCESS
    /\ last_pub_state = SS_FREE


\* C13: a request that has no entry in req_handler_map is answered
\* CMD_NOT_SUPPORTED and raises nothing out of the loop.
C13_UnsupportedAnswered ==
    (tick.req # NoReq /\ tick.req \notin req_handler_map)
    => /\ tick.rep = REP_CMD_NOT_SUPPORTED
       /\ ~tick.raised
       /\ alive


\* The publications of kind k among ps.
PubsOfKind(ps, k) == SelectSeq(ps, LAMBDA p : p.kind = k)

\* C14: a tick publishes the scan state exactly when the state it polled
\* differs from the one recorded by the previous tick, and the scan
\* parameters exactly when those it polled differ from the recorded ones;
\* what it publishes is what it polled, once.
C14_StepPublishesChanges ==
    /\ PubsOfKind(pubs', "ScanStateMsg") =
          IF scan_state' # scan_state THEN <<PubState(scan_state')>>
          ELSE << >>
    /\ PubsOfKind(pubs', "ScanParameters2d") =
          IF scan_params' # scan_params THEN <<PubParams(scan_params')>>
          ELSE << >>

C14_PublishedIffChanged == [][C14_StepPublishesChanges]_vars

\* After an earlier publication of the state, a tick polled the same
\* state and other parameters, and published the parameters only.
C14_Witness ==
    /\ tick.prev_pub # "None"
    /\ tick.prev_pub = scan_state
    /\ ~tick.raised
    /\ KindsOf(pubs) = <<"ScanParameters2d">>


\* The tick left SCANNING: it polled the scan and compared it.
LeavesScanning == scan_state = SS_SCANNING /\ scan_state' # SS_SCANNING

\* C15 as stated: on leaving SCANNING the polled scan is compared with the
\* recorded one by timestamp if both carry one, by sample values
\* otherwise, and published exactly when they differ.
C15_StepComparesIfBothStamped ==
    LeavesScanning =>
        (PubsOfKind(pubs', "Scan2d") =
            IF (IF scan.has_ts /\ scan'.has_ts THEN scan.ts # scan'.ts
                ELSE scan.values # scan'.values)
            THEN <<PubScan(scan')>> ELSE << >>)

C15_ComparedIfBothStamped == [][C15_StepComparesIfBothStamped]_vars

\* C15: on leaving SCANNING the polled scan is compared with the recorded
\* one by timestamp if the polled scan carries one (a recorded scan
\* without a timestamp has the zero timestamp), by sample values
\* otherwise, and published exactly when they differ.
C15_StepComparesIfPolledStamped ==
    LeavesScanning =>
        (PubsOfKind(pubs', "Scan2d") =
            IF (IF scan'.has_ts THEN scan.ts # scan'.ts
                ELSE scan.values # scan'.values)
            THEN <<PubScan(scan')>> ELSE << >>)

C15_ComparedIfPolledStamped == [][C15_StepComparesIfPolledStamped]_vars

\* The controller left SCANNING and polled a scan with the timestamp of
\* the recorded one: it published the new state and no scan.
C15_Witness ==
    /\ tick.state_at_req = SS_SCANNING
    /\ scan_state # SS_SCANNING
    /\ scan.has_ts
    /\ KindsOf(pubs) = <<"ScanStateMsg">>


\* The timer of the ImageController ended a scan in the tick.
ScanTimedOut ==
    \E i \in 1..Len(trans) :
        trans[i] = [from |-> SS_SCANNING, to |-> SS_FREE, cause |-> "timer"]

\* C16: a scan that was started ends at the first tick after scan_time_s
\* has elapsed: no tick leaves the device SCANNING longer than that.  An
\* accepted START_SCAN publishes SCANNING, and the tick that ends the scan
\* with no request publishes FREE and then one Scan2d, which has the shape
\* of the scan parameters.
C16_ScanCompletes ==
    /\ (dev_scan_state = SS_SCANNING /\ start_ts # 0)
          => now - start_ts <= scan_time_s
    /\ (tick.req = REQ_START_SCAN /\ tick.handler = "on_start_scan"
            /\ tick.dev_state_before = SS_FREE)
          => pubs = <<PubState(SS_SCANNING)>>
    /\ (ScanTimedOut /\ tick.req = NoReq)
          => /\ tick.prev_pub = SS_SCANNING
             /\ dev_scan.params = dev_scan_params
             /\ pubs = <<PubState(SS_FREE), PubScan(dev_scan)>>


\* The messages of envelope e among those admitted, in arrival order.
AdmittedFor(e) ==
    SelectSeq(ingested, LAMBDA m : get_envelope_for_proto(m) = e)

\* C19: the FIFO of every envelope holds the most recent min(n, depth) of
\* the n messages admitted for the envelope, in arrival order, and every
\* envelope admitted has a FIFO.
C19_FifoHoldsLastDepth ==
    /\ \A e \in DOMAIN cache.fifo :
          /\ Len(cache.fifo[e].q) <= DepthOf(e)
          /\ cache.fifo[e].q = LastN(AdmittedFor(e), DepthOf(e))
    /\ \A i \in 1..Len(ingested) :
          get_envelope_for_proto(ingested[i]) \in DOMAIN cache.fifo

\* Three messages of one envelope of depth 2 were admitted: the FIFO has
\* the last two.
C19_Witness ==
    /\ Len(ingested) = 3
    /\ \E e \in DOMAIN cache.fifo :
          /\ Len(AdmittedFor(e)) = 3
          /\ DepthOf(e) = 2
          /\ cache.fifo[e].q = <<ingested[2], ingested[3]>>

\* The envelopes of the cache that have no configured depth of their own.
Specialised == {e \in DOMAIN cache.fifo : e \notin DOMAIN envelope_to_history_map}

\* C20: a Scan2d whose envelope has no configured depth gets, at its first
\* admission, a FIFO under that envelope with the depth configured for
\* Scan2d, and is appended to it; later scans of the envelope go to the
\* same FIFO.
C20_SpecialisedScanFifo ==
    /\ \A e \in Specialised :
          /\ IsPrefix(scan_id, e)
          /\ cache.fifo[e].maxlen = envelope_to_history_map[scan_id]
          /\ Cardinality({i \in 1..Len(cache.keys) : cache.keys[i] = e}) = 1
          /\ cache.fifo[e].q = LastN(AdmittedFor(e), cache.fifo[e].maxlen)
    /\ \A i \in 1..Len(ingested) :
          ingested[i].type = scan_id
          => get_envelope_for_proto(ingested[i]) \in Specialised
    /\ (ingested # << >> /\ ingested[Len(ingested)].type = scan_id)
          => LET p == ingested[Len(ingested)]
                 q == cache.fifo[get_envelope_for_proto(p)].q
             IN  q # << >> /\ q[Len(q)] = p

\* Two scans of one envelope were admitted with depth 2: the FIFO made
\* for the first holds both.
C20_Witness ==
    /\ Len(ingested) >= 2
    /\ ingested[1].type = scan_id
    /\ get_envelope_for_proto(ingested[1]) = get_envelope_for_proto(ingested[2])
    /\ envelope_to_history_map[scan_id] = 2
    /\ cache.fifo[get_envelope_for_proto(ingested[1])].q
          = <<ingested[1], ingested[2]>>

(***************************************************************************)
(* A cache logic on its own (pbc_logic.py): it is constructed, admits      *)
(* messages to a cache and extracts protos from received messages.         *)
(***************************************************************************)
\* A Scan2d with its channel, twice its ROI size.x and twice its size.y.
Scan2d(channel, size2, size_y2, id) ==
    [type |-> scan_id, channel |-> channel, size2 |-> size2,
     size_y2 |-> size_y2, id |-> id]

SPMStatus(id) ==
    [type |-> status_id, channel |-> << >>, size2 |-> 0, size_y2 |-> 0,
     id |-> id]

\* A ScanStateMsg, a message type the device controller publishes and
\* that the logic below is given no history for.
state_msg_id == <<"S", "c", "a", "n", "S", "t", "a", "t", "e", "M", "s", "g">>

ScanStateMsg(id) ==
    [type |-> state_msg_id, channel |-> << >>, size2 |-> 0, size_y2 |-> 0,
     id |-> id]

\* The two message types the default list gives a history of 1 (the broker
\* of test_pubsubcache caches both with a default ProtoBasedCacheLogic).
DEFAULT_PROTO_WITH_HIST_SEQ ==
    <<[proto |-> Scan2d(<< >>, 0, 0, 0), history |-> 1],
      [proto |-> SPMStatus(0), history |-> 1]>>

LogicKinds == {"ProtoBasedCacheLogic", "PBCScanLogic"}

\* self.get_envelope_for_proto of a logic of class kind.
EnvelopeFor(kind, proto) ==
    IF kind = "PBCScanLogic" THEN get_envelope_for_proto(proto)
    ELSE ProtoBased_get_envelope_for_proto(proto)

\* create_roi_proto_hist_list: the default list, then for each (size, hist)
\* a Scan2d that has the size and nothing else set.
create_roi_proto_hist_list(sizes) ==
    DEFAULT_PROTO_WITH_HIST_SEQ \o
    [i \in 1..Len(sizes) |->
        [proto |-> Scan2d(<< >>, sizes[i].size2, sizes[i].size_y2, 0),
         history |-> sizes[i].hist]]

\* d[k] = v on a dict kept as its keys in insertion order and its values.
DictSet(d, k, v) ==
    [keys |-> IF \E i \in 1..Len(d.keys) : d.keys[i] = k
              THEN d.keys ELSE Append(d.keys, k),
     val |-> [x \in (DOMAIN d.val) \cup {k} |->
                 IF x = k THEN v ELSE d.val[x]]]

\* ProtoBasedCacheLogic.__init__, after the first n entries of the list:
\* the envelope of each proto gets its history and its default proto (of
\* which the type is kept).
RECURSIVE ProtoBasedCacheLogic_init(_, _, _)
ProtoBasedCacheLogic_init(kind, list, n) ==
    IF n = 0
    THEN [envelope_to_history_map |-> << >>,
          envelope_to_proto_map |-> [keys |-> << >>, val |-> << >>]]
    ELSE LET prev == ProtoBasedCacheLogic_init(kind, list, n - 1)
             envelope == EnvelopeFor(kind, list[n].proto)
         IN  [envelope_to_history_map |->
                 (envelope :> list[n].history) @@ prev.envelope_to_history_map,
              envelope_to_proto_map |->
                 DictSet(prev.envelope_to_proto_map, envelope,
                         list[n].proto.type)]

\* PBCScanLogic.__init__.
PBCScanLogic_init(list, default_scan_history) ==
    LET b == ProtoBasedCacheLogic_init("PBCScanLogic", list, Len(list))
    IN  [envelope_to_history_map |->
            (scan_id :> default_scan_history) @@ b.envelope_to_history_map,
         envelope_to_proto_map |->
            IF scan_id \in DOMAIN b.envelope_to_proto_map.val
            THEN b.envelope_to_proto_map
            ELSE DictSet(b.envelope_to_proto_map, scan_id, scan_id)]

\* The ROI sizes a PBCScanLogic is configured with: none, or 2.0 x 2.0.
RoiConfigs ==
    {<< >>} \cup {<<[size2 |-> 4, size_y2 |-> 4, hist |-> h]>> :
                    h \in 1..MaxDepth}

\* A logic is constructed: a default ProtoBasedCacheLogic, or a
\* PBCScanLogic(create_roi_proto_hist_list(sizes), default_scan_history).
LogicConstructed ==
    /\ logic \in LogicKinds
    /\ IF logic = "PBCScanLogic"
       THEN /\ sizes_with_hist_list \in RoiConfigs
            /\ \E dsh \in 1..MaxDepth :
                 LET l == PBCScanLogic_init(
                            create_roi_proto_hist_list(sizes_with_hist_list),
                            dsh)
                 IN  /\ envelope_to_history_map = l.envelope_to_history_map
                     /\ envelope_to_proto_map = l.envelope_to_proto_map
       ELSE /\ sizes_with_hist_list = << >>
            /\ LET l == ProtoBasedCacheLogic_init(logic,
                            DEFAULT_PROTO_WITH_HIST_SEQ,
                            Len(DEFAULT_PROTO_WITH_HIST_SEQ))
               IN  /\ envelope_to_history_map = l.envelope_to_history_map
                   /\ envelope_to_proto_map = l.envelope_to_proto_map
    /\ decoded = << >>
    /\ last_admit = << >>
    /\ cache = [keys |-> << >>, fifo |-> << >>]
    /\ ingested = << >>
    /\ subs = << >>
    /\ delivered = << >>
    /\ subscriptions = << >>
    /\ sub_cache = << >>

\* The protos given to update_cache; id is the rank of the call.
Admitted(id) ==
    {Scan2d(<< >>, 4, 4, id), Scan2d(<<"a">>, 4, 4, id),
     Scan2d(<<"a">>, 5, 4, id), Scan2d(<<"a">>, 4, 6, id), SPMStatus(id),
     ScanStateMsg(id)}

\* cache_logic.update_cache(proto, cache).
Admit(proto) ==
    /\ Len(ingested) < MaxMsgs
    /\ LET r == IF logic = "PBCScanLogic"
                THEN update_cache(envelope_to_history_map, proto, cache)
                ELSE ProtoBased_update_cache(envelope_to_history_map,
                        ProtoBased_get_envelope_for_proto(proto), proto,
                        cache)
       IN  /\ cache' = r.cache
           /\ ingested' = IF r.raised THEN ingested
                          ELSE Append(ingested, proto)
           /\ last_admit' = [proto |-> proto, before |-> cache,
                             raised |-> r.raised]
    /\ UNCHANGED <<envelope_to_history_map, subs, delivered, subscriptions,
                   sub_cache, logic, envelope_to_proto_map, decoded,
                   sizes_with_hist_list>>


\* The loop of extract_proto over the known envelopes, from the i-th on: a
\* key found in the envelope takes its place, and the keys after it are
\* looked for in the key that took its place.
RECURSIVE FindBase(_, _, _)
FindBase(keys, i, r) ==
    IF i > Len(keys) THEN r
    ELSE FindBase(keys, i + 1,
                  IF IsSubstring(keys[i], r.envelope)
                  THEN [envelope |-> keys[i], env_changed |-> TRUE]
                  ELSE r)

\* proto.ParseFromString(contents) on a default proto of a type: the
\* message that was serialised, or for contents of another type a message
\* of the type with no field that can be relied on.
ParseFromString(type, contents) ==
    IF contents.type = type THEN contents
    ELSE IF type = scan_id THEN Scan2d(<< >>, 0, 0, contents.id)
    ELSE SPMStatus(contents.id)

NoProto == [type |-> << >>]

\* ProtoBasedCacheLogic.extract_proto on msg = [envelope, contents]: the
\* proto, the envelope it was decoded with, or a KeyError.
extract_proto(m, msg) ==
    LET known == msg.envelope \in DOMAIN m.val
        start == [envelope |-> msg.envelope, env_changed |-> FALSE]
        r == IF known THEN start ELSE FindBase(m.keys, 1, start)
    IN  IF ~known /\ ~r.env_changed
        THEN [raised |-> TRUE, envelope |-> msg.envelope,
              env_changed |-> FALSE, proto |-> NoProto]
        ELSE [raised |-> FALSE, envelope |-> r.envelope,
              env_changed |-> r.env_changed,
              proto |-> ParseFromString(m.val[r.envelope], msg.contents)]

\* The protos publishers send.
Sent ==
    {Scan2d(<<"a">>, 4, 4, 0), Scan2d(<<"_", "2", ".", "0">>, 4, 4, 0),
     Scan2d(status_id, 4, 4, 0), SPMStatus(0)}

\* The messages a subscriber receives: a proto under the envelope the cache
\* logic of its publisher gives it, or a message of another system under
\* an envelope of its own.
Received ==
    {[envelope |-> EnvelopeFor(k, p), contents |-> p, pub |-> k] :
        k \in LogicKinds, p \in Sent}
    \cup {[envelope |-> e, contents |-> Scan2d(<<"a">>, 4, 4, 0),
           pub |-> "other"] : e \in {<<"X">>, <<"X">> \o scan_id}}

\* A subscriber hands a received message to cache_logic.extract_proto.
Decode(msg) ==
    /\ decoded' = [msg |-> msg,
                   result |-> extract_proto(envelope_to_proto_map, msg)]
    /\ UNCHANGED <<brokerVars, logic, envelope_to_proto_map,
                   sizes_with_hist_list, last_admit>>

otherThanLogic == <<devVars, clientVars, routerVars, serverVars>>

LogicNext ==
    \/ \E proto \in Admitted(Len(ingested) + 1) :
          Admit(proto) /\ UNCHANGED otherThanLogic
    \/ \E msg \in Received : Decode(msg) /\ UNCHANGED otherThanLogic

LogicInit ==
    LogicConstructed /\ DeviceIdle /\ ClientIdle /\ RouterIdle /\ ServerIdle

\* A cache logic, the protos it admits and the messages it decodes.
LogicSpec == LogicInit /\ [][LogicNext]_vars


(***************************************************************************)
(* Claims about the cache logic on its own.                                *)
(***************************************************************************)
\* The depths create_roi_proto_hist_list was given for the ROI size of m.
ConfiguredDepth(m) ==
    {sizes_with_hist_list[i].hist : i \in
        {j \in 1..Len(sizes_with_hist_list) :
            /\ sizes_with_hist_list[j].size2 = m.size2
            /\ sizes_with_hist_list[j].size_y2 = m.size_y2}}

\* C21: a Scan2d whose ROI size was given the depth d through
\* create_roi_proto_hist_list is cached by PBCScanLogic in a FIFO of depth
\* d whatever its channel, and a Scan2d of a size that was not configured
\* is cached in a FIFO of the base default depth.
C21_RoiDepthWhateverChannel ==
    logic = "PBCScanLogic" =>
        \A e \in DOMAIN cache.fifo : \A i \in 1..Len(cache.fifo[e].q) :
            LET m == cache.fifo[e].q[i]
            IN  m.type = scan_id =>
                    IF ConfiguredDepth(m) # {}
                    THEN cache.fifo[e].maxlen \in ConfiguredDepth(m)
                    ELSE cache.fifo[e].maxlen =
                            envelope_to_history_map[scan_id]


\* The known envelopes that are a prefix of a received envelope.
KnownPrefixes(envelope) ==
    {k \in DOMAIN envelope_to_proto_map.val : IsPrefix(k, envelope)}

\* C22: extract_proto accepts a received envelope that is not itself known
\* only when a known envelope is a prefix of it, and then decodes with such
\* a known envelope; when no known envelope is a prefix of it, it fails
\* with the KeyError and returns no message.
C22_PrefixFallbackOnly ==
    (decoded # << >>
        /\ decoded.msg.envelope \notin DOMAIN envelope_to_proto_map.val) =>
        IF KnownPrefixes(decoded.msg.envelope) # {}
        THEN /\ ~decoded.result.raised
             /\ decoded.result.envelope \in KnownPrefixes(decoded.msg.envelope)
        ELSE /\ decoded.result.raised
             /\ decoded.result.proto = NoProto


\* The known envelopes the fallback of extract_proto finds in a received
\* envelope.
KnownMatches(envelope) ==
    {k \in DOMAIN envelope_to_proto_map.val : IsSubstring(k, envelope)}

\* C30: when several known envelopes match a received unknown envelope, the
\* envelope extract_proto decodes with is the longest of them, whatever the
\* order in which the envelopes were registered.
C30_LongestMatch ==
    (decoded # << >> /\ decoded.result.env_changed) =>
        /\ decoded.result.envelope \in KnownMatches(decoded.msg.envelope)
        /\ \A k \in KnownMatches(decoded.msg.envelope) :
              Len(k) <= Len(decoded.result.envelope)


\* C23: for every well-formed message extract_proto accepts, the envelope
\* the subscriber's logic gives the decoded proto is the received envelope,
\* the fallback included, for every pairing of the cache logic of the
\* publisher and of the subscriber.
C23_ReencodeGivesEnvelope ==
    (decoded # << >> /\ decoded.msg.pub \in LogicKinds
        /\ ~decoded.result.raised) =>
        EnvelopeFor(logic, decoded.result.proto) = decoded.msg.envelope



\* The integers nearest to half of size2, the even one alone when two are
\* as near.
NearestHalfEven(size2) ==
    {r \in 0..9 : \/ 2 * r = size2
                  \/ (2 * r - size2 \in {-1, 1} /\ r % 2 = 0)}

\* C24 as stated: the envelope of a Scan2d is "Scan2d_" + channel + "_" +
\* the decimal integer form of size.x (for size.x = 2: the suffix "2"),
\* size.x being rounded half-to-even when it is not an integer.
C24_IntegerSuffix ==
    logic = "PBCScanLogic" =>
        \A e \in DOMAIN cache.fifo : \A i \in 1..Len(cache.fifo[e].q) :
            LET proto == cache.fifo[e].q[i]
            IN  proto.type = scan_id =>
                    \E r \in NearestHalfEven(proto.size2) :
                        e = scan_id \o <<"_">> \o proto.channel \o <<"_">>
                              \o <<Digits[r + 1]>>

\* C24: the envelope of a Scan2d is "Scan2d_" + channel + "_" + the float
\* form of size.x rounded half-to-even (for size.x = 2 and for size.x =
\* 2.5: the suffix "2.0").
C24_FloatSuffix ==
    logic = "PBCScanLogic" =>
        \A e \in DOMAIN cache.fifo : \A i \in 1..Len(cache.fifo[e].q) :
            LET proto == cache.fifo[e].q[i]
            IN  proto.type = scan_id =>
                    \E r \in NearestHalfEven(proto.size2) :
                        e = scan_id \o <<"_">> \o proto.channel \o <<"_">>
                              \o <<Digits[r + 1], ".", "0">>

\* A Scan2d of size.x = 2.5 and one of size.x = 2 have been given their
\* envelope.
C24_Witness ==
    /\ logic = "PBCScanLogic"
    /\ \E e \in DOMAIN cache.fifo : \E i \in 1..Len(cache.fifo[e].q) :
          cache.fifo[e].q[i].type = scan_id /\ cache.fifo[e].q[i].size2 = 5
    /\ \E i \in 1..Len(ingested) :
          ingested[i].type = scan_id /\ ingested[i].size2 = 4


\* C29: the messages held in one scan FIFO of a PBCScanLogic all have the
\* same channel and the same ROI size (size.x and size.y).
C29_OneSizePerFifo ==
    logic = "PBCScanLogic" =>
        \A e \in DOMAIN cache.fifo :
            \A i, j \in 1..Len(cache.fifo[e].q) :
                LET a == cache.fifo[e].q[i]
                    b == cache.fifo[e].q[j]
                IN  (a.type = scan_id /\ b.type = scan_id) =>
                        /\ a.channel = b.channel
                        /\ a.size2 = b.size2
                        /\ a.size_y2 = b.size_y2


(***************************************************************************)
(* Claims about what the subscribers of the broker receive.                *)
(***************************************************************************)
\* Whether one of topics is a prefix of the envelope of proto.
TopicPrefix(topics, proto) ==
    \E t \in topics : IsPrefix(t, get_envelope_for_proto(proto))

\* C25: a subscriber receives and caches a message only if one of its
\* topics is a prefix of the message's envelope (a subscriber to Scan2d
\* gets no SPMStatus, one to SPMStatus no Scan2d), and every message sent
\* after a subscription is delivered to the subscriber if the topic is a
\* prefix of its envelope.
C25_DeliveredIffMatched ==
    /\ \A s \in Subscribers :
          /\ \A i \in 1..Len(delivered[s]) :
                TopicPrefix(subs[s], delivered[s][i])
          /\ \A e \in DOMAIN sub_cache[s].fifo :
                \E t \in subs[s] : IsPrefix(t, e)
    /\ \A n \in 1..Len(subscriptions) :
          LET u == subscriptions[n]
          IN  \A k \in (u.at + 1)..Len(ingested) :
                  TopicPrefix({u.topic}, ingested[k]) =>
                      \E i \in (u.pos + 1)..Len(delivered[u.sub]) :
                          delivered[u.sub][i] = ingested[k]

\* One subscriber has Scan2d only and the other SPMStatus only; a scan and
\* a status were sent after they subscribed and each got its own.
C25_Witness ==
    /\ subs["sub_scan"] = {scan_id}
    /\ subs["sub_both"] = {status_id}
    /\ \A n \in 1..Len(subscriptions) : subscriptions[n].at = 0
    /\ \E i, j \in 1..Len(ingested) :
          /\ ingested[i].type = scan_id
          /\ ingested[j].type = status_id
          /\ delivered["sub_scan"] = <<ingested[i]>>
          /\ delivered["sub_both"] = <<ingested[j]>>

\* C26: at a new subscription the cached messages of the envelopes of its
\* topic are sent again to every subscriber then subscribed to them, not
\* only to the new one, and after the replay the cache of each subscriber
\* holds for each envelope at most depth messages (exactly one with depth
\* 1).
C26_ReplayToAllSubscribers ==
    /\ \A n \in 1..Len(subscriptions) :
          LET u == subscriptions[n]
              owed == OwedTo(u)
          IN  \A s \in Subscribers :
                  LET mine == SelectSeq(owed,
                                 LAMBDA m : TopicPrefix(u.subs[s], m))
                  IN  /\ Len(delivered[s]) >= u.had[s] + Len(mine)
                      /\ SubSeq(delivered[s], u.had[s] + 1,
                                u.had[s] + Len(mine)) = mine
    /\ \A s \in Subscribers : \A e \in DOMAIN sub_cache[s].fifo :
          /\ Len(sub_cache[s].fifo[e].q) <= DepthOf(e)
          /\ DepthOf(e) = 1 => Len(sub_cache[s].fifo[e].q) = 1

\* sub_scan had received a scan when sub_both subscribed to Scan2d: the
\* scan was sent again to sub_scan too, whose cache of depth 1 holds it
\* once.
C26_Witness ==
    \E n \in 1..Len(subscriptions) :
        LET u == subscriptions[n]
        IN  /\ u.sub = "sub_both"
            /\ u.topic = scan_id
            /\ u.had["sub_scan"] = 1
            /\ OwedTo(u) = <<ingested[1]>>
            /\ Len(ingested) = 1
            /\ delivered["sub_scan"] = <<ingested[1], ingested[1]>>
            /\ envelope_to_history_map[scan_id] = 1
            /\ sub_cache["sub_scan"].fifo[
                  get_envelope_for_proto(ingested[1])].q = <<ingested[1]>>

\* C27: within an envelope every subscriber observes the messages in the
\* order the broker ingested them, replays included: after a message it
\* never observes one of the same envelope that the broker ingested
\* before it.
C27_IngestOrderPerEnvelope ==
    \A s \in Subscribers : \A i, j \in 1..Len(delivered[s]) :
        (i < j /\ get_envelope_for_proto(delivered[s][i])
                    = get_envelope_for_proto(delivered[s][j])) =>
            delivered[s][i].id <= delivered[s][j].id


(***************************************************************************)
(* Claims about the replies of the device controller.                      *)
(***************************************************************************)
\* C28: every request the device controller polls from its ControlServer
\* gets its reply within the same tick, whatever the request code and the
\* payload, so that the next poll never finds a request unanswered.
C28_EveryRequestReplied ==
    tick.req # NoReq => (tick.rep # NoRep /\ ~tick.raised)


\* C31: update_cache of a message whose envelope has no history and that
\* is not a Scan2d raises, and the cache is as it was given: no FIFO made
\* or changed, the message in none.
C31_UnknownEnvelopeRaises ==
    last_admit # << >> =>
        LET envelope == EnvelopeFor(logic, last_admit.proto)
        IN  (envelope \notin DOMAIN envelope_to_history_map
                /\ last_admit.proto.type # scan_id) =>
                /\ last_admit.raised
                /\ cache = last_admit.before
                /\ envelope \notin DOMAIN cache.fifo
                /\ \A e \in DOMAIN cache.fifo :
                      \A i \in 1..Len(cache.fifo[e].q) :
                          cache.fifo[e].q[i] # last_admit.proto

\* A ScanStateMsg was refused by a cache that held messages already.
C31_Witness ==
    /\ last_admit # << >>
    /\ last_admit.raised
    /\ last_admit.proto.type = state_msg_id
    /\ Len(ingested) >= 2
    /\ Len(cache.keys) >= 2


(***************************************************************************)
(* Claims about the socket the client is left with.                        *)
(***************************************************************************)
\* C34: whenever _try_send_req has returned, with a reply or with
\* NO_RESPONSE, self.client is an open socket, on which the next request
\* method can send.
C34_OpenSocketOnReturn ==
    (cl_pc = "idle" /\ cl_event \in {"reply", "give_up"}) =>
        /\ ~client_closed
        /\ client \in open_socks


(***************************************************************************)
(* Claims about the state the device controller refuses requests on.       *)
(***************************************************************************)
\* C36 as stated: PERFORMING_SCAN is replied only when the device is
\* scanning at the moment the request is handled; a request handled in a
\* tick whose timer has already brought the device back to FREE is
\* dispatched to its handler.
C36_RefusedOnlyIfDeviceScanning ==
    tick.rep = REP_PERFORMING_SCAN => tick.dev_state_before = SS_SCANNING

\* C36: PERFORMING_SCAN is replied only when the scan_state the controller
\* recorded at its last poll is SCANNING and the request is not STOP_SCAN;
\* a request handled in a tick whose timer has already brought the device
\* back to FREE is still refused, since the controller polls the device
\* after it handles the request.
C36_RefusedOnRecordedState ==
    /\ tick.rep = REP_PERFORMING_SCAN =>
          /\ tick.state_at_req = SS_SCANNING
          /\ tick.req \notin {NoReq, REQ_STOP_SCAN}
    /\ (tick.req \notin {NoReq, REQ_STOP_SCAN}
            /\ tick.state_at_req = SS_SCANNING
            /\ tick.dev_state_before = SS_FREE) =>
          /\ tick.rep = REP_PERFORMING_SCAN
          /\ tick.handler = "None"

\* A START_SCAN was handled in the tick whose timer ended the scan, and was
\* refused.
C36_Witness ==
    /\ tick.req = REQ_START_SCAN
    /\ tick.state_at_req = SS_SCANNING
    /\ tick.dev_state_before = SS_FREE
    /\ tick.rep = REP_PERFORMING_SCAN
    /\ scan_state = SS_FREE


(***************************************************************************)
(* Claims about the lease and the mode of the Router.                      *)
(***************************************************************************)
\* C33: whenever a lease exists, its granted_mode is the router's mode.
C33_LeaseModeIsRouterMode ==
    \A l \in lease : l.granted_mode = mode


(***************************************************************************)
(* ControlServer (control_server.py) in the loop of a device controller,   *)
(* and the ControlClient that sends it requests.                           *)
(***************************************************************************)
\* timeout_ms = None is written -1.
NoTimeout == -1

PollTimeouts == {NoTimeout} \cup 0..MaxPollTimeout

\* `if timeout_ms:` of ControlServer.poll: None and 0 are both false.
Truthy(timeout_ms) == timeout_ms # NoTimeout /\ timeout_ms # 0

\* A transmission of the client, as it waits at the REP socket: the call
\* it belongs to and its rank among the transmissions of the call (each is
\* made on a socket of its own).
Transmission(call, tx, req) == [call |-> call, tx |-> tx, req |-> req]

\* (None, None) of ControlServer.poll, and no reply on its way.
NoTransmission == Transmission(0, 0, NoReq)
NoReply == [call |-> 0, rep |-> NoRep]

\* The device controller is constructed with poll_timeout_ms; its client
\* gives up after request_retries >= 1 timeouts.
ServerConstructed ==
    /\ poll_timeout_ms \in PollTimeouts
    /\ srv_pc = "loop"
    /\ srv_queue = << >>
    /\ srv_polled = NoTransmission
    /\ srv_reply = NoReply
    /\ srv_runs = << >>
    /\ ClientConstructed
    /\ request_retries >= 1
    /\ server_up
    /\ uuid = "None"

\* _handle_incoming_requests calls control_server.poll(poll_timeout_ms):
\* with a true timeout_ms it waits in server.poll(timeout_ms), else in a
\* blocking recv_multipart().
ServerPoll ==
    /\ srv_pc = "loop"
    /\ srv_pc' = IF Truthy(poll_timeout_ms) THEN "poll" ELSE "recv"
    /\ UNCHANGED <<poll_timeout_ms, srv_queue, srv_polled, srv_reply,
                   srv_runs, clientVars>>

\* A request waits at the socket: poll returns it, parsed.
ServerPollIn ==
    /\ srv_pc \in {"poll", "recv"}
    /\ srv_queue # << >>
    /\ srv_polled' = Head(srv_queue)
    /\ srv_queue' = Tail(srv_queue)
    /\ srv_pc' = "got"
    /\ UNCHANGED <<poll_timeout_ms, srv_reply, srv_runs, clientVars>>

\* server.poll(timeout_ms) ends with no request: poll returns (None, None).
ServerPollTimeout ==
    /\ srv_pc = "poll"
    /\ srv_queue = << >>
    /\ srv_polled' = NoTransmission
    /\ srv_pc' = "got"
    /\ UNCHANGED <<poll_timeout_ms, srv_queue, srv_reply, srv_runs,
                   clientVars>>

\* The rest of run_per_loop: a request is refused (refused: the controller
\* is scanning) or its handler is run, and the reply is sent; it reaches
\* the client if the socket that sent the request is still open, that is
\* if the client still polls on its last transmission.  Then the device
\* is polled.
ServerHandle(refused) ==
    /\ srv_pc = "got"
    /\ srv_pc' = "loop"
    /\ srv_polled' = NoTransmission
    /\ IF srv_polled = NoTransmission
       THEN UNCHANGED <<srv_runs, srv_reply>>
       ELSE LET rep == IF refused THEN REP_PERFORMING_SCAN ELSE REP_SUCCESS
            IN  /\ srv_runs' = IF refused THEN srv_runs
                               ELSE Append(srv_runs, srv_polled.call)
                /\ srv_reply' =
                      IF /\ cl_pc = "poll"
                         /\ srv_polled.call = calls
                         /\ srv_polled.tx = sent
                      THEN [call |-> srv_polled.call, rep |-> rep]
                      ELSE srv_reply
    /\ UNCHANGED <<poll_timeout_ms, srv_queue, clientVars>>

\* A request method of the client: its first transmission reaches the
\* socket of the server.
ServerCall(msg) ==
    /\ Call(msg)
    /\ srv_queue' = IF client_closed THEN srv_queue
                    ELSE Append(srv_queue, Transmission(calls', sent', msg))
    /\ UNCHANGED <<poll_timeout_ms, srv_pc, srv_polled, srv_reply, srv_runs>>

\* The poll of the client times out: the socket is closed, and with it a
\* reply on its way is lost; a retransmission reaches the server.
ServerClientTimeout ==
    /\ PollTimeout
    /\ srv_reply' = NoReply
    /\ srv_queue' = IF cl_event' = "resend"
                    THEN Append(srv_queue,
                                Transmission(calls, sent', cl_msg))
                    ELSE srv_queue
    /\ UNCHANGED <<poll_timeout_ms, srv_pc, srv_polled, srv_runs>>

\* The reply reaches the client, which returns it.
ServerClientReply ==
    /\ srv_reply # NoReply
    /\ PollReply(srv_reply.rep)
    /\ srv_reply' = NoReply
    /\ UNCHANGED <<poll_timeout_ms, srv_pc, srv_queue, srv_polled, srv_runs>>

otherThanServer == <<devVars, brokerVars, routerVars, logicVars>>

ServerNext ==
    \/ ServerPoll /\ UNCHANGED otherThanServer
    \/ ServerPollIn /\ UNCHANGED otherThanServer
    \/ ServerPollTimeout /\ UNCHANGED otherThanServer
    \/ \E refused \in BOOLEAN :
          ServerHandle(refused) /\ UNCHANGED otherThanServer
    \/ \E msg \in ClientRequests :
          ServerCall(msg) /\ UNCHANGED otherThanServer
    \/ ServerClientTimeout /\ UNCHANGED otherThanServer
    \/ ServerClientReply /\ UNCHANGED otherThanServer

ServerInit ==
    ServerConstructed /\ DeviceIdle /\ BrokerIdle /\ RouterIdle /\ LogicIdle

\* A device controller's ControlServer and its ControlClient.
ServerSpec == ServerInit /\ [][ServerNext]_vars

\* C32: ControlServer.poll called with an integer timeout, 0 included,
\* never waits in the blocking receive: only poll(None) does, so that a
\* tick with poll_timeout_ms = 0 and no request goes on to poll the device.
C32_IntegerTimeoutNeverBlocks ==
    srv_pc = "recv" => poll_timeout_ms = NoTimeout

\* The calls of the client whose handler was run by the server.
RunsOf(call) == {i \in 1..Len(srv_runs) : srv_runs[i] = call}

\* C35: one call of a request method of the client makes the device
\* controller run the handler of the request at most once, retransmissions
\* included.
C35_HandlerAtMostOncePerCall ==
    \A call \in 1..calls : Cardinality(RunsOf(call)) <= 1

=============================================================================
